---- MODULE Spec2Model ----
(***************************************************************************)
(* SQLMatches: the community directory (SQLMatches/community/__init__.py), *)
(* the match listing of a community and the version-check endpoint         *)
(* (SQLMatches/routes/api/misc.py), as state machines over the tables the  *)
(* code reads and writes.                                                  *)
(*                                                                         *)
(* Every "await Sessions.database..." is one step: the framework suspends  *)
(* a handler at each database call, so the statements of two requests      *)
(* interleave at exactly these points.  create_community is therefore a    *)
(* process of three steps (owner_exists, insert community, insert key);    *)
(* every other operation issues a single statement and is one action.      *)
(***************************************************************************)
EXTENDS Integers, Sequences, FiniteSets, TLC

(***************************************************************************)
(* Bounds of the model.                                                    *)
(***************************************************************************)
\* concurrent create_community requests
NumTasks == 2
\* tokens token_urlsafe(24) hands out in one behaviour
MaxKeys == 3

Tasks == 1..NumTasks
Keys == 1..MaxKeys
\* steam ids of the callers
Owners == {"S1", "S2"}
\* community names the callers ask for
Names == {"alpha", "beta"}
\* the disabled argument of create_community: its one caller, CommunityAPI.post,
\* passes steam_id, community_name and demos, so disabled keeps its default
DisabledArgs == {FALSE}

VARIABLES
    community,      \* community_table: rows [community_name, owner_id, disabled]
    api_key,        \* api_key_table: rows [api_key, owner_id, community_name, master]
    issued,         \* number of tokens token_urlsafe has produced so far
    pc,             \* per request: the statement create_community awaits next
    args,           \* per request: the arguments of the create_community call
    last,           \* the outcome of the statement executed last
    disabledCalls   \* names on which disable() completed while the row was enabled

dirVars == <<community, api_key, issued, pc, args, last, disabledCalls>>

VARIABLES
    scoreboard_total,   \* scoreboard_total_table, in insertion order
    scoreboard,         \* scoreboard_table: rows [match_id, steam_id]
    user,               \* user_table: rows [steam_id, name]
    now,                \* the reading of datetime.now()
    listing             \* the last matches() call: its arguments and what it yielded

matchVars == <<scoreboard_total, scoreboard, user, now, listing>>

VARIABLES
    update_table,   \* update_table: rows [version, message]
    cache,          \* VersionCache, by version
    response        \* what the last request got back

versionVars == <<update_table, cache, response>>

(***************************************************************************)
(* Queries of the community directory.  A query is the set of rows the     *)
(* statement selects; fetch_one / fetch_val return one of them, and the    *)
(* caller raises when there is none.                                       *)
(***************************************************************************)

\* owner_exists: count(*) of the enabled communities of steam_id > 0
OwnerExistsDisabledOnly(steam_id) ==
    Cardinality({c \in community : c.owner_id = steam_id /\ c.disabled = TRUE}) > 0

OwnerExists(steam_id) ==
    Cardinality({c \in community : c.owner_id = steam_id /\ c.disabled = FALSE}) > 0

\* Community.exists: count of the rows of that name > 0, disabled or not
Exists(community_name) ==
    Cardinality({c \in community : c.community_name = community_name}) > 0

\* Community.get: community joined with api_key on the name, master = 1.
\* The empty set is InvalidCommunity.
Get(community_name) ==
    { [api_key |-> k.api_key, owner_id |-> k.owner_id,
       disabled |-> c.disabled, community_name |-> c.community_name] :
        <<c, k>> \in { p \in community \X api_key :
                         /\ p[1].community_name = p[2].community_name
                         /\ p[1].community_name = community_name
                         /\ p[2].master = TRUE } }

\* api_key_to_community: community joined with api_key, key matches and the
\* community is enabled.  The empty set is InvalidAPIKey.
ApiKeyToCommunityAnyState(key) ==
    { [community_name |-> c.community_name, master |-> k.master] :
        <<c, k>> \in { p \in community \X api_key :
                         /\ p[2].community_name = p[1].community_name
                         /\ p[2].api_key = key } }

ApiKeyToCommunity(key) ==
    { [community_name |-> c.community_name, master |-> k.master] :
        <<c, k>> \in { p \in community \X api_key :
                         /\ p[2].community_name = p[1].community_name
                         /\ p[2].api_key = key
                         /\ p[1].disabled = FALSE } }

\* get_community_from_owner: names of the enabled communities of steam_id;
\* a falsy (empty) name counts as none.  The empty set is NoOwnership.
GetCommunityFromOwner(steam_id) ==
    { c.community_name : c \in { r \in community :
                                   /\ r.owner_id = steam_id
                                   /\ r.disabled = FALSE
                                   /\ r.community_name # "" } }

(***************************************************************************)
(* Statements of the community directory, as functions of the tables.      *)
(***************************************************************************)

\* The insert of create_community raises when the name is already a row of
\* community_table (its unique key); the handler turns that into CommunityTaken.
CommunityInsertRaisesEnabledOnly(community_name) ==
    \E c \in community : c.community_name = community_name /\ c.disabled = FALSE

CommunityInsertRaises(community_name) ==
    \E c \in community : c.community_name = community_name

\* The row create_community inserts into community_table (demos and timestamp
\* left out: no statement of the directory reads or changes them).
CommunityRow(steam_id, community_name, disabled) ==
    [community_name |-> community_name, owner_id |-> steam_id,
     disabled |-> disabled]

\* The row create_community inserts into api_key_table.
ApiKeyRowNotMaster(key, steam_id, community_name) ==
    [api_key |-> key, owner_id |-> steam_id,
     community_name |-> community_name, master |-> FALSE]

ApiKeyRow(key, steam_id, community_name) ==
    [api_key |-> key, owner_id |-> steam_id,
     community_name |-> community_name, master |-> TRUE]

\* Community.regenerate: update api_key set api_key = key
\* where community_name = self.community_name and api_key = old_key
RegenerateUpdateNewKey(rows, community_name, old_key, key) ==
    { IF r.community_name = community_name /\ r.api_key = key
        THEN [r EXCEPT !.api_key = key] ELSE r : r \in rows }

RegenerateUpdate(rows, community_name, old_key, key) ==
    { IF r.community_name = community_name /\ r.api_key = old_key
        THEN [r EXCEPT !.api_key = key] ELSE r : r \in rows }

\* Community.regenerate_master: update api_key set api_key = key
\* where community_name = self.community_name and master = 1
RegenerateMasterUpdate(rows, community_name, key) ==
    { IF r.community_name = community_name /\ r.master = TRUE
        THEN [r EXCEPT !.api_key = key] ELSE r : r \in rows }

\* Community.disable: update community set disabled = true
\* where community_name = self.community_name
DisableUpdate(rows, community_name) ==
    { IF r.community_name = community_name
        THEN [r EXCEPT !.disabled = TRUE] ELSE r : r \in rows }

\* token_urlsafe(24): 192 random bits, modelled as a token never handed out before.
TokenUrlsafe == issued + 1

NoArgs == CommunityRow("", "", FALSE)

\* What the statement executed last was given and what its caller got back:
\* ret is "ok" or the exception raised, ret_key the key returned (0: none).
Outcome(op, steam_id, community_name, key, ret, ret_key) ==
    [op |-> op, steam_id |-> steam_id, community_name |-> community_name,
     key |-> key, ret |-> ret, ret_key |-> ret_key]

DirInit ==
    /\ community = {}
    /\ api_key = {}
    /\ issued = 0
    /\ pc = [t \in Tasks |-> "idle"]
    /\ args = [t \in Tasks |-> NoArgs]
    /\ last = Outcome("none", "", "", 0, "", 0)
    /\ disabledCalls = {}

(***************************************************************************)
(* create_community, one action per awaited statement.                     *)
(***************************************************************************)

\* A request enters create_community(steam_id, community_name, disabled) and its
\* first statement runs: if await owner_exists(steam_id): raise AlreadyCommunity()
CreateOwnerExists(t, steam_id, community_name, disabled) ==
    /\ pc[t] = "idle"
    /\ IF OwnerExists(steam_id)
         THEN /\ last' = Outcome("create_community", steam_id, community_name,
                                 0, "AlreadyCommunity", 0)
              /\ UNCHANGED <<pc, args>>
         ELSE /\ pc' = [pc EXCEPT ![t] = "insert_community"]
              /\ args' = [args EXCEPT ![t] =
                             CommunityRow(steam_id, community_name, disabled)]
              /\ UNCHANGED last
    /\ UNCHANGED <<community, api_key, issued, disabledCalls>>
    /\ UNCHANGED <<matchVars, versionVars>>

\* try: execute(community_table.insert()...) except Exception: raise CommunityTaken()
CreateInsertCommunity(t) ==
    /\ pc[t] = "insert_community"
    /\ IF CommunityInsertRaises(args[t].community_name)
         THEN /\ pc' = [pc EXCEPT ![t] = "idle"]
              /\ args' = [args EXCEPT ![t] = NoArgs]
              /\ last' = Outcome("create_community", args[t].owner_id,
                                 args[t].community_name, 0, "CommunityTaken", 0)
              /\ UNCHANGED community
         ELSE /\ community' = community \cup {args[t]}
              /\ pc' = [pc EXCEPT ![t] = "insert_api_key"]
              /\ UNCHANGED <<args, last>>
    /\ UNCHANGED <<api_key, issued, disabledCalls>>
    /\ UNCHANGED <<matchVars, versionVars>>

\* else: api_key = token_urlsafe(24); execute(api_key_table.insert()...); return
CreateInsertApiKey(t) ==
    /\ pc[t] = "insert_api_key"
    /\ issued < MaxKeys
    /\ issued' = issued + 1
    /\ api_key' = api_key \cup
            {ApiKeyRow(TokenUrlsafe, args[t].owner_id, args[t].community_name)}
    /\ pc' = [pc EXCEPT ![t] = "idle"]
    /\ args' = [args EXCEPT ![t] = NoArgs]
    /\ last' = Outcome("create_community", args[t].owner_id,
                       args[t].community_name, 0, "ok", TokenUrlsafe)
    /\ UNCHANGED <<community, disabledCalls>>
    /\ UNCHANGED <<matchVars, versionVars>>

\* The second execute raises (a persistence failure): nothing catches it, the
\* request ends and the community row stays.
CreateInsertApiKeyRaises(t) ==
    /\ pc[t] = "insert_api_key"
    /\ issued < MaxKeys
    /\ issued' = issued + 1
    /\ pc' = [pc EXCEPT ![t] = "idle"]
    /\ args' = [args EXCEPT ![t] = NoArgs]
    /\ last' = Outcome("create_community", args[t].owner_id,
                       args[t].community_name, 0, "error", 0)
    /\ UNCHANGED <<community, api_key, disabledCalls>>
    /\ UNCHANGED <<matchVars, versionVars>>

(***************************************************************************)
(* The single-statement operations of a Community handle.                  *)
(***************************************************************************)

Disable(community_name) ==
    /\ community' = DisableUpdate(community, community_name)
    /\ disabledCalls' = disabledCalls \cup
            { c.community_name : c \in { r \in community :
                r.community_name = community_name /\ r.disabled = FALSE } }
    /\ last' = Outcome("disable", "", community_name, 0, "ok", 0)
    /\ UNCHANGED <<api_key, issued, pc, args>>
    /\ UNCHANGED <<matchVars, versionVars>>

Regenerate(community_name, old_key) ==
    /\ issued < MaxKeys
    /\ issued' = issued + 1
    /\ api_key' = RegenerateUpdate(api_key, community_name, old_key, TokenUrlsafe)
    /\ last' = Outcome("regenerate", "", community_name, old_key, "ok", TokenUrlsafe)
    /\ UNCHANGED <<community, pc, args, disabledCalls>>
    /\ UNCHANGED <<matchVars, versionVars>>

RegenerateMaster(community_name) ==
    /\ issued < MaxKeys
    /\ issued' = issued + 1
    /\ api_key' = RegenerateMasterUpdate(api_key, community_name, TokenUrlsafe)
    /\ last' = Outcome("regenerate_master", "", community_name, 0, "ok", TokenUrlsafe)
    /\ UNCHANGED <<community, pc, args, disabledCalls>>
    /\ UNCHANGED <<matchVars, versionVars>>

DirNext ==
    \/ \E t \in Tasks, s \in Owners, n \in Names, d \in DisabledArgs :
            CreateOwnerExists(t, s, n, d)
    \/ \E t \in Tasks : CreateInsertCommunity(t)
    \/ \E t \in Tasks : CreateInsertApiKey(t)
    \/ \E t \in Tasks : CreateInsertApiKeyRaises(t)
    \/ \E n \in Names : Disable(n)
    \/ \E n \in Names, k \in Keys : Regenerate(n, k)
    \/ \E n \in Names : RegenerateMaster(n)

(***************************************************************************)
(* Matches of a community: Community.create_match and Community.matches.   *)
(* Text is a sequence of characters; LIKE '%x%' is "x occurs in it".       *)
(***************************************************************************)

\* matches one behaviour creates
MaxMatches == 3
\* readings of datetime.now() one behaviour sees
MaxTime == 1
\* largest page and limit a caller of matches() passes
MaxPage == 2
MaxLimit == 2

Digit == <<"1", "2", "3", "4", "5", "6", "7", "8", "9">>
\* str(uuid4()) of the n-th match created: a string no other match has
MatchId(n) == <<"#", Digit[n]>>
MapNames == {<<"d", "2">>}
TeamNames == {<<"a">>}
SteamIds == {<<"7", "6">>}
UserNames == {<<"p">>}
\* search: None and "" are both falsy
NoSearch == <<>>
SearchTerms == {NoSearch, <<"d">>} \cup {MatchId(n) : n \in 1..MaxMatches}
Pages == 0..MaxPage
Limits == 1..MaxLimit
\* a column no insert has given a value
Null == "NULL"

Min(a, b) == IF a < b THEN a ELSE b
Max(a, b) == IF a > b THEN a ELSE b
Range(f) == {f[i] : i \in DOMAIN f}

\* column LIKE '%search%'
Like(text, search) ==
    \E i \in 0..(Len(text) - Len(search)) :
        SubSeq(text, i + 1, i + Len(search)) = search

\* SQL equality: never true of a NULL
SqlEq(a, b) == a # Null /\ b # Null /\ a = b

\* the columns matches() selects
Selected(m) ==
    [match_id |-> m.match_id, timestamp |-> m.timestamp, status |-> m.status,
     demo_status |-> m.demo_status, map |-> m.map,
     team_1_name |-> m.team_1_name, team_2_name |-> m.team_2_name,
     team_1_score |-> m.team_1_score, team_2_score |-> m.team_2_score,
     team_1_side |-> m.team_1_side, team_2_side |-> m.team_2_side]

\* matches(), no search: where scoreboard_total.community_name = self.community_name
PlainRows(community_name) ==
    { Selected(m) : m \in { r \in Range(scoreboard_total) :
                                r.community_name = community_name } }

\* matches(), search: scoreboard_total join scoreboard join user,
\* where scoreboard_total.name = self.community_name and (one of six), distinct
SearchRows(community_name, search) ==
    { Selected(j[1]) : j \in { q \in Range(scoreboard_total) \X scoreboard \X user :
        /\ q[2].match_id = q[1].match_id
        /\ q[3].steam_id = q[2].steam_id
        /\ SqlEq(q[1].name, community_name)
        /\ \/ q[1].match_id = search
           \/ Like(q[1].map, search)
           \/ Like(q[1].team_1_name, search)
           \/ Like(q[1].team_2_name, search)
           \/ Like(q[3].name, search)
           \/ q[3].steam_id = search } }

\* .offset((page - 1) * limit if page > 1 else 0)
OffsetFromPageZero(page, limit) == page * limit

Offset(page, limit) == IF page > 1 THEN (page - 1) * limit ELSE 0

\* order_by(timestamp.desc() if desc else timestamp.asc()): every ordering of the
\* rows the database may produce (rows of equal timestamp come in any order)
Orderings(rows, desc) ==
    { s \in [1..Cardinality(rows) -> rows] :
        /\ \A i, j \in DOMAIN s : i # j => s[i] # s[j]
        /\ \A i, j \in DOMAIN s : i < j =>
              IF desc THEN s[i].timestamp >= s[j].timestamp
                      ELSE s[i].timestamp <= s[j].timestamp }

\* .limit(limit).offset(offset)
Window(s, limit, offset) == SubSeq(s, offset + 1, Min(Len(s), offset + limit))

NoListing ==
    [community_name |-> "", search |-> NoSearch, page |-> 0, limit |-> 0,
     desc |-> TRUE, result |-> <<>>]

MatchInit ==
    /\ scoreboard_total = <<>>
    /\ scoreboard = {}
    /\ user = {}
    /\ now = 0
    /\ listing = NoListing

\* Community.create_match
CreateMatch(community_name, team_1_name, team_2_name, team_1_side, team_2_side, team_1_score, team_2_score, map_name) ==
    /\ listing = NoListing
    /\ Len(scoreboard_total) < MaxMatches
    /\ scoreboard_total' = Append(scoreboard_total,
          [match_id |-> MatchId(Len(scoreboard_total) + 1),
           team_1_name |-> team_1_name, team_2_name |-> team_2_name,
           team_1_side |-> team_1_side, team_2_side |-> team_2_side,
           map |-> map_name, community_name |-> community_name,
           team_1_score |-> team_1_score, team_2_score |-> team_2_score,
           status |-> 1, demo_status |-> 0, timestamp |-> now,
           name |-> Null])
    /\ UNCHANGED <<scoreboard, user, now, listing>>
    /\ UNCHANGED <<dirVars, versionVars>>

\* Community.matches
Matches(community_name, search, page, limit, desc) ==
    /\ listing = NoListing
    /\ \E s \in Orderings(IF search # NoSearch
                               THEN SearchRows(community_name, search)
                               ELSE PlainRows(community_name), desc) :
          listing' = [community_name |-> community_name, search |-> search,
                      page |-> page, limit |-> limit, desc |-> desc,
                      result |-> Window(s, limit, Offset(page, limit))]
    /\ UNCHANGED <<scoreboard_total, scoreboard, user, now>>
    /\ UNCHANGED <<dirVars, versionVars>>

\* time passes between two readings of datetime.now()
Tick ==
    /\ listing = NoListing
    /\ now < MaxTime
    /\ now' = now + 1
    /\ UNCHANGED <<scoreboard_total, scoreboard, user, listing>>
    /\ UNCHANGED <<dirVars, versionVars>>

\* a player joins a match: the per-player scoreboard row and the user row the
\* search joins against (written by the match's scoreboard update)
AddPlayer(n, steam_id, name) ==
    /\ listing = NoListing
    /\ n \in 1..Len(scoreboard_total)
    /\ scoreboard' = scoreboard \cup {[match_id |-> MatchId(n), steam_id |-> steam_id]}
    /\ user' = IF \E u \in user : u.steam_id = steam_id
                THEN user
                ELSE user \cup {[steam_id |-> steam_id, name |-> name]}
    /\ UNCHANGED <<scoreboard_total, now, listing>>
    /\ UNCHANGED <<dirVars, versionVars>>

\* the caller has consumed what matches() yielded; the next operation starts
Consumed ==
    /\ listing # NoListing
    /\ listing' = NoListing
    /\ UNCHANGED <<scoreboard_total, scoreboard, user, now>>
    /\ UNCHANGED <<dirVars, versionVars>>

MatchNext ==
    \/ \E c \in Names, t1 \in TeamNames, t2 \in TeamNames, m \in MapNames :
            CreateMatch(c, t1, t2, 2, 3, 0, 0, m)
    \/ \E c \in Names, q \in SearchTerms, p \in Pages, l \in Limits, d \in BOOLEAN :
            Matches(c, q, p, l, d)
    \/ Tick
    \/ \E n \in 1..MaxMatches, i \in SteamIds, u \in UserNames : AddPlayer(n, i, u)
    \/ Consumed

(***************************************************************************)
(* The version-check endpoint, VersionAPI.get.                             *)
(***************************************************************************)

\* versions the plugins report and update messages carry
MaxVersion == 3
Versions == 1..MaxVersion
Messages == {"update", "upgrade"}
NoMessage == ""

VersionInit ==
    /\ update_table \in SUBSET [version : Versions, message : Messages]
    /\ cache = [v \in Versions |-> NoMessage]
    /\ response = [version |-> 0, kind |-> "none", message |-> NoMessage]

\* VersionAPI.get: a cached message is returned; on a miss the query is built with
\* select([...]).select_form(...), an attribute Select does not have, so the
\* handler raises AttributeError before it queries, caches or answers.
VersionGet(version) ==
    /\ IF cache[version] # NoMessage
         THEN response' = [version |-> version, kind |-> "message",
                           message |-> cache[version]]
         ELSE response' = [version |-> version, kind |-> "AttributeError",
                           message |-> NoMessage]
    /\ UNCHANGED <<update_table, cache>>
    /\ UNCHANGED <<dirVars, matchVars>>

VersionNext == \E v \in Versions : VersionGet(v)

(***************************************************************************)
(* The specifications: one per component, the other components at rest.    *)
(***************************************************************************)

vars == <<dirVars, matchVars, versionVars>>

VersionAtRest ==
    /\ update_table = {}
    /\ cache = [v \in Versions |-> NoMessage]
    /\ response = [version |-> 0, kind |-> "none", message |-> NoMessage]

Init == DirInit /\ MatchInit /\ VersionAtRest
Next == DirNext
Spec == Init /\ [][Next]_vars

InitMatches == DirInit /\ MatchInit /\ VersionAtRest
NextMatches == MatchNext
SpecMatches == InitMatches /\ [][NextMatches]_vars

InitVersion == DirInit /\ MatchInit /\ VersionInit
NextVersion == VersionNext
SpecVersion == InitVersion /\ [][NextVersion]_vars

(***************************************************************************)
(* Claims about the community directory (specification Spec).              *)
(***************************************************************************)

EnabledOf(steam_id) ==
    {c \in community : c.owner_id = steam_id /\ c.disabled = FALSE}

MasterKeysOf(community_name) ==
    {k \in api_key : k.community_name = community_name /\ k.master = TRUE}

\* a step in which create_community raised
CreateRaised(ret) ==
    /\ last' # last
    /\ last'.op = "create_community"
    /\ last'.ret = ret

TablesUnchanged == community' = community /\ api_key' = api_key

\* C1: each owning identity owns at most one community whose disabled flag is
\* false, in every reachable state and under every interleaving.
C1_AtMostOneEnabledPerOwner ==
    \A s \in Owners : Cardinality(EnabledOf(s)) <= 1

\* C2, as stated: for a community that is enabled and has a key, regenerate with
\* any old_key and regenerate_master return a key that resolves to the community
\* afterwards, and differs from the key stored before, which no longer resolves.
C2_Original ==
    [][\A c \in community, k \in api_key :
          ( /\ c.disabled = FALSE
            /\ k.community_name = c.community_name
            /\ issued' = issued + 1
            /\ last'.op \in {"regenerate", "regenerate_master"}
            /\ last'.community_name = c.community_name )
          => \E new \in Keys :
                /\ new = last'.ret_key
                /\ new # k.api_key
                /\ \E r \in ApiKeyToCommunity(new)' :
                       r.community_name = c.community_name
                /\ ApiKeyToCommunity(k.api_key)' = {}]_vars

\* C2, amended: on an enabled community, regenerate(old_key) with old_key a key
\* stored for that community, and regenerate_master() when the community has its
\* master key row, return a key different from the stored one; afterwards the
\* returned key resolves to that community (with the row's master flag) and the
\* previous key resolves to nothing.
C2_RotationReplacesKey ==
    [][\A c \in community, k \in api_key :
          ( /\ c.disabled = FALSE
            /\ k.community_name = c.community_name
            /\ issued' = issued + 1
            /\ last'.community_name = c.community_name
            /\ \/ last'.op = "regenerate" /\ last'.key = k.api_key
               \/ last'.op = "regenerate_master" /\ k.master = TRUE )
          => \E new \in Keys :
                /\ new = last'.ret_key
                /\ new # k.api_key
                /\ ApiKeyToCommunity(new)' =
                       {[community_name |-> c.community_name, master |-> k.master]}
                /\ ApiKeyToCommunity(k.api_key)' = {}]_vars

C2_Witness ==
    /\ last.op = "regenerate"
    /\ ApiKeyToCommunity(last.ret_key) # {}
    /\ last.key \in Keys

\* C3, as stated (the part that is to stay so): once disable() has completed on
\* a community and the lookups by its keys and by its owner fail while get()
\* and exists() find it, the same is true after any further operation.
C3_Original ==
    [][\A c \in community :
          ( /\ c.community_name \in disabledCalls
            /\ \A k \in api_key : k.community_name = c.community_name
                                     => ApiKeyToCommunity(k.api_key) = {}
            /\ GetCommunityFromOwner(c.owner_id) = {}
            /\ Get(c.community_name) # {}
            /\ Exists(c.community_name) )
          => /\ \A k \in api_key' : k.community_name = c.community_name
                                     => ApiKeyToCommunity(k.api_key)' = {}
             /\ GetCommunityFromOwner(c.owner_id)' = {}
             /\ Get(c.community_name)' # {}
             /\ Exists(c.community_name)']_vars

\* C3, amended: after disable() completes on an enabled community, in every later
\* state the row is still there and disabled, api_key_to_community raises
\* InvalidAPIKey for every key of the community, get_community_from_owner with
\* its owner never returns it (it raises NoOwnership unless the owner owns another
\* enabled community), exists() is true, and get() returns the row of every
\* master key the community has.
C3_DisabledStaysHidden ==
    \A n \in disabledCalls :
        /\ \E c \in community : c.community_name = n /\ c.disabled = TRUE
        /\ \A k \in api_key : k.community_name = n => ApiKeyToCommunity(k.api_key) = {}
        /\ \A c \in community : c.community_name = n
                                  => n \notin GetCommunityFromOwner(c.owner_id)
        /\ Exists(n)
        /\ Get(n) = { [api_key |-> k.api_key, owner_id |-> k.owner_id,
                       disabled |-> TRUE, community_name |-> n] :
                         k \in MasterKeysOf(n) }

\* a disabled community with its master key, whose owner has created another
C3_Witness ==
    \E n \in disabledCalls, c \in community :
        /\ c.community_name = n
        /\ MasterKeysOf(n) # {}
        /\ GetCommunityFromOwner(c.owner_id) # {}

\* C4: every community row has exactly one api_key row with master = true, in
\* every reachable state.
C4_ExactlyOneMasterKey ==
    \A c \in community : Cardinality(MasterKeysOf(c.community_name)) = 1

\* C5: create_community for an owner without an enabled community and a name no
\* row uses passes owner_exists and inserts the community row; when its key
\* insert has run, get() on the name returns the row whose api_key is the key
\* create_community returns, whose owner_id is the creating identity and whose
\* community_name is the given name.
C5_CreateThenGet ==
    [][\A t \in Tasks :
          /\ CreateRaised("AlreadyCommunity") => EnabledOf(last'.steam_id) # {}
          /\ CreateRaised("CommunityTaken")
             => \E c \in community : c.community_name = last'.community_name
          /\ ( /\ pc[t] = "insert_community" /\ pc'[t] # "insert_community"
               /\ \A c \in community : c.community_name # args[t].community_name )
             => /\ pc'[t] = "insert_api_key"
                /\ args[t] \in community'
          /\ ( pc[t] = "insert_api_key" /\ pc'[t] = "idle" /\ last'.ret = "ok" )
             => \E s \in Owners, n \in Names, new \in Keys :
                   /\ s = args[t].owner_id
                   /\ n = args[t].community_name
                   /\ new = last'.ret_key
                   /\ { [api_key |-> r.api_key, owner_id |-> r.owner_id,
                          community_name |-> r.community_name] : r \in Get(n)' }
                      = { [api_key |-> new, owner_id |-> s,
                           community_name |-> n] }]_vars

C5_Witness ==
    /\ last.op = "create_community"
    /\ last.ret = "ok"
    /\ \E r \in Get(last.community_name) : r.api_key = last.ret_key

\* C6, as stated: create_community called with a name some community row uses
\* fails with CommunityTaken and changes neither table.
C6_Original ==
    [][( /\ last' # last
         /\ last'.op = "create_community"
         /\ last'.ret \in {"AlreadyCommunity", "CommunityTaken"}
         /\ \E c \in community : c.community_name = last'.community_name )
       => last'.ret = "CommunityTaken" /\ TablesUnchanged]_vars

\* C6, amended: create_community called with a name some community row uses,
\* enabled or disabled, fails and changes neither table: with AlreadyCommunity
\* when the caller owns an enabled community as owner_exists runs, otherwise
\* with CommunityTaken when the insert is attempted.  (A name in use stays in
\* use: no statement deletes a community row.)
C6_NameInUseFails ==
    [][/\ ( /\ last' # last
            /\ last'.op = "create_community"
            /\ last'.ret \in {"AlreadyCommunity", "CommunityTaken"}
            /\ \E c \in community : c.community_name = last'.community_name )
          => /\ TablesUnchanged
             /\ last'.ret = "AlreadyCommunity" <=> pc' = pc
             /\ last'.ret = "AlreadyCommunity" => EnabledOf(last'.steam_id) # {}
       /\ \A t \in Tasks :
            ( /\ pc[t] = "insert_community" /\ pc'[t] # "insert_community"
              /\ \E c \in community : c.community_name = args[t].community_name )
            => /\ pc'[t] = "idle"
               /\ last'.op = "create_community"
               /\ last'.ret = "CommunityTaken"
               /\ last'.community_name = args[t].community_name
               /\ TablesUnchanged
       /\ \A c \in community :
            \E d \in community' : d.community_name = c.community_name]_vars

\* the name was taken by a community that has been disabled since
C6_Witness ==
    /\ last.op = "create_community"
    /\ last.ret = "CommunityTaken"
    /\ \E c \in community : c.community_name = last.community_name /\ c.disabled = TRUE

\* C7, as stated: create_community for an identity that already owns a community
\* (any row with its owner_id) does not get past owner_exists.
C7_Original ==
    [][\A t \in Tasks :
          ( pc[t] = "idle" /\ pc'[t] # "idle" )
          => \A c \in community : c.owner_id # args'[t].owner_id]_vars

\* C7, amended: create_community for an identity that owns an enabled community
\* as owner_exists runs fails with AlreadyCommunity before any insert is issued:
\* the call does not get past owner_exists, and the step that raises leaves both
\* tables and every request as they were.
C7_EnabledOwnerRejected ==
    [][/\ \A t \in Tasks :
            ( pc[t] = "idle" /\ pc'[t] # "idle" )
            => /\ pc'[t] = "insert_community"
               /\ \A c \in community :
                     c.owner_id = args'[t].owner_id => c.disabled = TRUE
       /\ CreateRaised("AlreadyCommunity")
            => /\ EnabledOf(last'.steam_id) # {}
               /\ TablesUnchanged
               /\ pc' = pc /\ args' = args]_vars

C7_Witness ==
    /\ last.op = "create_community"
    /\ last.ret = "AlreadyCommunity"
    /\ EnabledOf(last.steam_id) # {}

(***************************************************************************)
(* Claims about the version-check endpoint (specification SpecVersion).    *)
(***************************************************************************)

\* C8: when a request for a version finds no cached message and some update
\* message has a version threshold at or below the reported version, the answer
\* carries such a message and that message is then in the cache under the
\* version, so that the next request for the version is answered from the cache.
C8_MissCachesAndReturnsMessage ==
    LET applicable == {u \in update_table : u.version <= response.version}
    IN  (response.kind # "none" /\ applicable # {})
        => /\ response.kind = "message"
           /\ \E u \in applicable :
                 /\ response.message = u.message
                 /\ cache[response.version] = u.message

(***************************************************************************)
(* Claims about the match listing (specification SpecMatches).             *)
(***************************************************************************)

OwnMatches(community_name) ==
    {m \in Range(scoreboard_total) : m.community_name = community_name}

\* a row of timestamp a comes strictly before one of timestamp b in the ordering
Before(a, b, desc) == IF desc THEN a > b ELSE a < b

\* C9: matches() without a search term yields min(limit, max(0, n - offset)) rows,
\* offset = (page-1)*limit when page > 1 and 0 otherwise, n the number of matches
\* of the community; each is a different match of that community, and the row
\* yielded i-th stands at position offset+i of the timestamp ordering (descending
\* when desc, ascending otherwise).
C9_PlainListingIsWindow ==
    (listing # NoListing /\ listing.search = NoSearch) =>
        LET own == OwnMatches(listing.community_name)
            off == IF listing.page > 1 THEN (listing.page - 1) * listing.limit ELSE 0
            r == listing.result
        IN  /\ Len(r) = Min(listing.limit, Max(0, Cardinality(own) - off))
            /\ \A i \in DOMAIN r : \E m \in own :
                  r[i].match_id = m.match_id /\ r[i].timestamp = m.timestamp
            /\ \A i, j \in DOMAIN r : i # j => r[i].match_id # r[j].match_id
            /\ \A i \in DOMAIN r :
                  /\ Cardinality({m \in own :
                        Before(m.timestamp, r[i].timestamp, listing.desc)}) <= off + i - 1
                  /\ Cardinality({m \in own :
                        ~Before(r[i].timestamp, m.timestamp, listing.desc)}) >= off + i

\* a later page of a community, with matches of equal timestamp, while another
\* community has matches too
C9_Witness ==
    /\ listing # NoListing
    /\ listing.search = NoSearch
    /\ listing.page > 1
    /\ Len(listing.result) > 0
    /\ \E m1, m2 \in OwnMatches(listing.community_name) :
          m1 # m2 /\ m1.timestamp = m2.timestamp
    /\ \E m \in Range(scoreboard_total) : m.community_name # listing.community_name

\* C10: matches(search = the exact id of a match create_match made for this
\* community), first page, yields that match exactly once, whatever scoreboard
\* and user rows exist for it.
C10_SearchByIdYieldsMatch ==
    ( /\ listing # NoListing
      /\ listing.page <= 1
      /\ \E m \in OwnMatches(listing.community_name) : m.match_id = listing.search )
    => Cardinality({i \in DOMAIN listing.result :
                      listing.result[i].match_id = listing.search}) = 1

====
